---------------------------- MODULE Spec2Model ----------------------------
(***************************************************************************)
(* FormulatorPro periodic execution: the PDF pipeline (src/main.py), the   *)
(* HTML pipeline (src/html_to_table.py) and the sheet client               *)
(* (src/gcp/sheets_client.py).                                             *)
(*                                                                         *)
(* Text.  A Python str is modelled as a sequence of atoms.  An atom is one *)
(* character, or one of the fixed literals the code searches for, taken as *)
(* a unit (none of them overlaps itself or another one):                   *)
(*   "SP"      U+0020 space            "TAB"     U+0009 tab                *)
(*   "FWSP"    U+3000 full-width space ","       comma                     *)
(*   "LPAR"    U+FF08 full-width (     "RPAR"    U+FF09 full-width )       *)
(*   "GOKEI"   合計量として            "KOKUSAI" 国際単位                  *)
(*   "ETHYL"   2－エチル               "GFW"     U+FF47 full-width g       *)
(*   "g"       ASCII g                 "FUKA"    配合不可                  *)
(*   "FUKA2"   配合負荷                "SEIBUNMEI" 成分名                  *)
(*   "nan"     the text nan            "HDR1".."HDR3" the three strings of *)
(*   EXPECTED_HEADER                   "URL"     the source URL            *)
(*   "1" "5" "0" digits, "." full stop, "A" "B" "C" "X" "Y" other letters  *)
(* The str is the concatenation of its atoms; "" is << >>.                 *)
(***************************************************************************)
EXTENDS Naturals, Sequences, FiniteSets

VARIABLES
  prog,         \* which program runs: "pdf" (main.py) or "html" (html_to_table.py)
  pc,           \* position inside main()
  items,        \* main.py: items; html_to_table.py: tables_rows
  k,            \* index of the table the loop is at
  df,           \* main.py: the loop's df
  ri,           \* html_to_table.py: index of the row the inner loop is at
  all_records,  \* main.py: all_records; html_to_table.py: records
  input,        \* what the extraction collaborator returns (camelot / the DOM)
  sheet,        \* the worksheet: the rows ws.get_all_values() returns
  sheet0,       \* history: the worksheet before the first append
  appended,     \* history: per append call, the rows of the records it was given
  nwrites,      \* history: the number of ws.update calls
  exists,       \* whether the spreadsheet has the worksheet of the title
  pending,      \* the append calls in progress, each at its next remote call
  overlap,      \* history: a call wrote between the read and the write of another
  other,        \* position of a second writer of the same worksheet
  fn,           \* function harness: the function applied ("none" before)
  fn_arg,       \* function harness: its argument
  fn_res,       \* function harness: its result
  cell,         \* normalizer harness: the cell text
  ncalls        \* harnesses: the number of calls made so far

vars == <<prog, pc, items, k, df, ri, all_records, input, sheet, sheet0,
          appended, nwrites, exists, pending, overlap, other,
          fn, fn_arg, fn_res, cell, ncalls>>

-----------------------------------------------------------------------------
(* Bounds *)

MaxCellLen == 4
MaxTables == 2
MaxTok0 == 4
MaxTok1 == 2
MaxAppends == 3
MaxCalls == 2
MaxCols == 5
MaxNames == 3
MaxAmounts == 2
MaxExtra == 1

-----------------------------------------------------------------------------
(* Atoms and str helpers *)

SP == "SP"
TAB == "TAB"
FWSP == "FWSP"
COMMA == ","
LPAR == "LPAR"
RPAR == "RPAR"
GOKEI == "GOKEI"
KOKUSAI == "KOKUSAI"
ETHYL == "ETHYL"
GFW == "GFW"
FUKA == "FUKA"
FUKA2 == "FUKA2"
SEIBUNMEI == "SEIBUNMEI"
NAN == "nan"
URL == <<"URL">>

Digits == {"0", "1", "5"}

\* regex \s, and what str.strip() strips
IsWs(c) == c \in {SP, TAB, FWSP}

RECURSIVE DropLeadingWs(_)
DropLeadingWs(s) ==
  IF s # <<>> /\ IsWs(Head(s)) THEN DropLeadingWs(Tail(s)) ELSE s

RECURSIVE DropTrailingWs(_)
DropTrailingWs(s) ==
  IF s # <<>> /\ IsWs(s[Len(s)])
  THEN DropTrailingWs(SubSeq(s, 1, Len(s) - 1)) ELSE s

\* str.strip()
Strip(s) == DropTrailingWs(DropLeadingWs(s))

\* the leading run of whitespace of s
RECURSIVE LeadingWs(_)
LeadingWs(s) ==
  IF s # <<>> /\ IsWs(Head(s)) THEN <<Head(s)>> \o LeadingWs(Tail(s)) ELSE <<>>

\* str.replace(a, b) for atoms a, b
ReplaceAtom(s, a, b) == [i \in 1..Len(s) |-> IF s[i] = a THEN b ELSE s[i]]

\* str.replace(a, "") for an atom a
RemoveAtom(s, a) == SelectSeq(s, LAMBDA c : c # a)

\* a in s, for an atom a
Contains(s, a) == \E i \in 1..Len(s) : s[i] = a

\* re.sub(r"\s+", "", s)
RemoveAllWs(s) == SelectSeq(s, LAMBDA c : ~IsWs(c))

RECURSIVE Concat(_)
Concat(ss) == IF ss = <<>> THEN <<>> ELSE Head(ss) \o Concat(Tail(ss))

\* sep.join(ss)
RECURSIVE Join(_, _)
Join(ss, sep) ==
  IF ss = <<>> THEN <<>>
  ELSE IF Len(ss) = 1 THEN ss[1]
  ELSE ss[1] \o sep \o Join(Tail(ss), sep)

\* all seqs over S of length 0..n
SeqsUpTo(S, n) == UNION {[1..m -> S] : m \in 0..n}

-----------------------------------------------------------------------------
(* clean_df: the Cell Normalizer, src/main.py 54-75 *)

\* re.sub(r"（([^）]*)）", _rm_spaces_inside_paren, y): leftmost matches, each
\* from a LPAR to the first RPAR after it; inside, [ \t　]+ is deleted
RECURSIVE _rm_spaces_inside_paren(_)
_rm_spaces_inside_paren(s) ==
  IF s = <<>> THEN <<>>
  ELSE IF Head(s) = LPAR /\ \E j \in 2..Len(s) : s[j] = RPAR
  THEN LET j == CHOOSE j \in 2..Len(s) :
                  s[j] = RPAR /\ \A i \in 2..(j - 1) : s[i] # RPAR
       IN <<LPAR>> \o RemoveAllWs(SubSeq(s, 2, j - 1)) \o <<RPAR>>
            \o _rm_spaces_inside_paren(SubSeq(s, j + 1, Len(s)))
  ELSE <<Head(s)>> \o _rm_spaces_inside_paren(Tail(s))

\* re.sub(r"(合計量として)\s+", r"\1", y)
RECURSIVE SubGokeiSpace(_)
SubGokeiSpace(s) ==
  IF s = <<>> THEN <<>>
  ELSE IF Head(s) = GOKEI
  THEN <<GOKEI>> \o SubGokeiSpace(DropLeadingWs(Tail(s)))
  ELSE <<Head(s)>> \o SubGokeiSpace(Tail(s))

\* re.sub(r"\s+(?=国際単位)", "", y)
RECURSIVE SubSpaceKokusai(_)
SubSpaceKokusai(s) ==
  IF s = <<>> THEN <<>>
  ELSE IF IsWs(Head(s))
  THEN LET run == LeadingWs(s)
           rest == SubSeq(s, Len(run) + 1, Len(s))
       IN IF rest # <<>> /\ Head(rest) = KOKUSAI
          THEN SubSpaceKokusai(rest)
          ELSE run \o SubSpaceKokusai(rest)
  ELSE <<Head(s)>> \o SubSpaceKokusai(Tail(s))

\* re.sub(r"(^|[^,])\s2－エチル", r"\1,2－エチル", y): non-overlapping matches
\* left to right; atStart says the scan is at offset 0 (where ^ matches)
RECURSIVE SubEthyl(_, _)
SubEthyl(s, atStart) ==
  IF s = <<>> THEN <<>>
  ELSE IF atStart /\ Len(s) >= 2 /\ IsWs(s[1]) /\ s[2] = ETHYL
  THEN <<COMMA, ETHYL>> \o SubEthyl(SubSeq(s, 3, Len(s)), FALSE)
  ELSE IF Len(s) >= 3 /\ s[1] # COMMA /\ IsWs(s[2]) /\ s[3] = ETHYL
  THEN <<s[1], COMMA, ETHYL>> \o SubEthyl(SubSeq(s, 4, Len(s)), FALSE)
  ELSE <<s[1]>> \o SubEthyl(Tail(s), FALSE)

\* re.sub(r"[ \t]+", " ", y)
RECURSIVE CollapseSpaceTab(_)
CollapseSpaceTab(s) ==
  IF s = <<>> THEN <<>>
  ELSE IF Head(s) \in {SP, TAB}
  THEN LET rest == Tail(s)
       IN IF rest # <<>> /\ Head(rest) \in {SP, TAB}
          THEN CollapseSpaceTab(rest)
          ELSE <<SP>> \o CollapseSpaceTab(rest)
  ELSE <<Head(s)>> \o CollapseSpaceTab(Tail(s))

_strip_cell(x) ==
  LET y1 == ReplaceAtom(x, FWSP, SP)
      y2 == _rm_spaces_inside_paren(y1)
      y3 == SubGokeiSpace(y2)
      y4 == SubSpaceKokusai(y3)
      y5 == SubEthyl(y4, TRUE)
  IN Strip(CollapseSpaceTab(y5))

\* a table is a seq of rows, a row a seq of cells (DataFrame.map)
clean_df(t) ==
  [r \in 1..Len(t) |-> [c \in 1..Len(t[r]) |-> _strip_cell(t[r][c])]]

-----------------------------------------------------------------------------
(* Tables.  A DataFrame is a seq of rows, each row a seq of cells (strs);  *)
(* every row of one table has the same number of cells.                    *)

\* df is None or df.empty
IsEmptyDf(t) == t = <<>> \/ t[1] = <<>>

\* df.shape[1] of a table with rows
NCols(t) == Len(t[1])

\* re.fullmatch(r"\d+", s)
_is_int_string(s) == s # <<>> /\ \A i \in 1..Len(s) : s[i] \in Digits

\* fullmatch of \d+(?:\.\d+)? (NUM_RE of html_to_table.py, and the number
\* part of _TOKEN_IS_AMOUNT)
IsNumber(s) ==
  \/ _is_int_string(s)
  \/ \E p \in 2..(Len(s) - 1) :
       /\ s[p] = "."
       /\ _is_int_string(SubSeq(s, 1, p - 1))
       /\ _is_int_string(SubSeq(s, p + 1, Len(s)))

_norm_no_space(s) == Strip(RemoveAllWs(ReplaceAtom(s, FWSP, SP)))

\* c.lower() != "nan"
IsNanText(c) == c = <<NAN>>

\* IsDigitRow with the ratio 1 in place of DIGIT_ROW_MIN_RATIO
IsDigitRowAllDigits(row) ==
  LET cells == [i \in 1..Len(row) |-> Strip(row[i])]
      nonempty == SelectSeq(cells, LAMBDA c : c # <<>> /\ ~IsNanText(c))
      digit_only_cnt == Len(SelectSeq(nonempty, _is_int_string))
  IN Len(nonempty) > 0 /\ digit_only_cnt >= Len(nonempty)

\* the digit-row test of drop_unwanted_rows, digit_only_cnt / len(nonempty)
\* >= DIGIT_ROW_MIN_RATIO (0.8) in integers
IsDigitRow(row) ==
  LET cells == [i \in 1..Len(row) |-> Strip(row[i])]
      nonempty == SelectSeq(cells, LAMBDA c : c # <<>> /\ ~IsNanText(c))
      digit_only_cnt == Len(SelectSeq(nonempty, _is_int_string))
  IN Len(nonempty) > 0 /\ 5 * digit_only_cnt >= 4 * Len(nonempty)

IsSeibunmeiRow(row) ==
  (IF Len(row) > 0 THEN _norm_no_space(row[1]) ELSE <<>>) = <<SEIBUNMEI>>

\* KeepRow without the 成分名 test
KeepRowDigitsOnly(row) == ~IsDigitRow(row)

KeepRow(row) == ~(IsDigitRow(row) \/ IsSeibunmeiRow(row))

drop_unwanted_rows(t) ==
  IF IsEmptyDf(t) THEN t ELSE SelectSeq(t, KeepRow)

\* the first token of s (s starts with a non-whitespace atom)
RECURSIVE FirstToken(_)
FirstToken(s) ==
  IF s = <<>> \/ IsWs(Head(s)) THEN <<>>
  ELSE <<Head(s)>> \o FirstToken(Tail(s))

\* [t for t in re.split(r"\s+", str(s).strip()) if t]
RECURSIVE _split_tokens(_)
_split_tokens(s) ==
  LET u == DropLeadingWs(s)
  IN IF u = <<>> THEN <<>>
     ELSE LET tok == FirstToken(u)
          IN <<tok>> \o _split_tokens(SubSeq(u, Len(tok) + 1, Len(u)))

\* " ".join([t for t in tokens if t != ""])
_join_tokens(tokens) == Join(SelectSeq(tokens, LAMBDA t : t # <<>>), <<SP>>)

\* _TOKEN_IS_AMOUNT.match(tok): ^\d+(?:\.\d+)?(?:ｇ|国際単位)$
_TOKEN_IS_AMOUNT(tok) ==
  /\ Len(tok) >= 2
  /\ tok[Len(tok)] \in {GFW, KOKUSAI}
  /\ IsNumber(SubSeq(tok, 1, Len(tok) - 1))

\* list.insert(pos, x), pos counted from 0
ListInsert(l, pos, x) ==
  SubSeq(l, 1, pos) \o <<x>> \o SubSeq(l, pos + 1, Len(l))

\* list.pop(i) leaves this list, i counted from 1
ListWithout(l, i) == SubSeq(l, 1, i - 1) \o SubSeq(l, i + 1, Len(l))

\* the loop "for i_hit in sorted(hits, reverse=True)" of one row: h runs down
\* over the indices (from 1) of orig, the tokens of column 0 before the loop
RECURSIVE MoveHits(_, _, _, _)
MoveHits(orig, c1, c2, h) ==
  IF h = 0 THEN <<c1, c2>>
  ELSE IF _TOKEN_IS_AMOUNT(orig[h]) /\ h >= 2
  THEN LET insert_pos == h - 2
           padded == IF insert_pos > Len(c2)
                     THEN c2 \o [i \in 1..(insert_pos - Len(c2)) |-> <<>>]
                     ELSE c2
       IN MoveHits(orig, ListWithout(c1, h),
                   ListInsert(padded, insert_pos, c1[h]), h - 1)
  ELSE MoveHits(orig, c1, c2, h - 1)

MoveRow(row) ==
  LET c1 == _split_tokens(row[1])
      c2 == _split_tokens(row[2])
      m == MoveHits(c1, c1, c2, Len(c1))
  IN [row EXCEPT ![1] = _join_tokens(m[1]), ![2] = _join_tokens(m[2])]

move_amount_token_from_col1_to_col2(t) ==
  IF IsEmptyDf(t) \/ NCols(t) < 2 THEN t
  ELSE [r \in 1..Len(t) |-> MoveRow(t[r])]

\* SquashRow with the threshold 2 in place of 3
SquashRowFromTwo(row) ==
  LET c1 == _split_tokens(row[1])
      c2 == _split_tokens(row[2])
  IN IF Len(c1) >= 2 /\ Len(c2) = 1
     THEN [row EXCEPT ![1] = Concat(c1)]
     ELSE row

SquashRow(row) ==
  LET c1 == _split_tokens(row[1])
      c2 == _split_tokens(row[2])
  IN IF Len(c1) >= 3 /\ Len(c2) = 1
     THEN [row EXCEPT ![1] = Concat(c1)]
     ELSE row

squash_left_when_many_tokens_and_right_one(t) ==
  IF IsEmptyDf(t) \/ NCols(t) < 2 THEN t
  ELSE [r \in 1..Len(t) |-> SquashRow(t[r])]

-----------------------------------------------------------------------------
(* df_to_records: the Record Synthesizer, src/main.py 177-269 *)

\* _strip_gokei_and_flag(s)[0]
StripGokei(s) == IF Contains(s, GOKEI) THEN Strip(RemoveAtom(s, GOKEI)) ELSE s

\* _strip_gokei_and_flag(s)[1]
HadGokei(s) == Contains(s, GOKEI)

\* a seq of raw values
_has_kokusai_tanni(values) ==
  \E i \in 1..Len(values) : Contains(values[i], KOKUSAI)

\* re.sub(r"(?:\s*ｇ\s*|\s*国際単位\s*)", "", s)
RECURSIVE SubUnits(_)
SubUnits(s) ==
  IF s = <<>> THEN <<>>
  ELSE IF Head(s) \in {GFW, KOKUSAI}
  THEN SubUnits(DropLeadingWs(Tail(s)))
  ELSE IF IsWs(Head(s))
  THEN LET run == LeadingWs(s)
           rest == SubSeq(s, Len(run) + 1, Len(s))
       IN IF rest # <<>> /\ Head(rest) \in {GFW, KOKUSAI}
          THEN SubUnits(rest)
          ELSE run \o SubUnits(rest)
  ELSE <<Head(s)>> \o SubUnits(Tail(s))

_strip_units_for_ryou(s) == Strip(SubUnits(s))

\* _contains_haigou_fuka without 配合負荷
ContainsHaigouFukaOnly(s) == Contains(s, FUKA)

_contains_haigou_fuka(s) == Contains(s, FUKA2) \/ Contains(s, FUKA)

\* l[i] if i < len(l) else "", i counted from 1
At(l, i) == IF i <= Len(l) THEN l[i] ELSE <<>>

\* FirstGokei with the scan going on after a hit: the last such candidate
RECURSIVE LastGokei(_)
LastGokei(cands) ==
  IF cands = <<>> THEN <<>>
  ELSE IF Contains(cands[Len(cands)], GOKEI) THEN cands[Len(cands)]
  ELSE LastGokei(SubSeq(cands, 1, Len(cands) - 1))

\* the first of the candidates that contains 合計量として, "" if none
RECURSIVE FirstGokei(_)
FirstGokei(cands) ==
  IF cands = <<>> THEN <<>>
  ELSE IF Contains(Head(cands), GOKEI) THEN Head(cands)
  ELSE FirstGokei(Tail(cands))

\* Record2 with the unit left empty when no amount was found
Record2NoAmountNoUnit(seibunn, cond, equal_len, c2, i, pdf_url) ==
  LET r1_raw == At(c2, i)
      r1 == _strip_units_for_ryou(StripGokei(r1_raw))
      tanni0 == IF _has_kokusai_tanni(<<r1_raw>>) THEN <<KOKUSAI>> ELSE <<"g">>
      tanni == IF _contains_haigou_fuka(r1) \/ r1 = <<>> THEN <<>> ELSE tanni0
  IN [seibunn |-> seibunn,
      jouken |-> IF ~equal_len THEN cond ELSE <<>>,
      ryou1 |-> r1, ryou2 |-> <<>>, ryou3 |-> <<>>, ryou4 |-> <<>>,
      tanni |-> tanni,
      bikou |-> IF HadGokei(r1_raw) THEN <<GOKEI>> ELSE <<>>,
      url |-> pdf_url]

\* Record2 with 合計量として left in ryou1
Record2KeepsGokei(seibunn, cond, equal_len, c2, i, pdf_url) ==
  LET r1_raw == At(c2, i)
      r1 == _strip_units_for_ryou(r1_raw)
      tanni0 == IF _has_kokusai_tanni(<<r1_raw>>) THEN <<KOKUSAI>> ELSE <<"g">>
      tanni == IF _contains_haigou_fuka(r1) THEN <<>> ELSE tanni0
  IN [seibunn |-> seibunn,
      jouken |-> IF ~equal_len THEN cond ELSE <<>>,
      ryou1 |-> r1, ryou2 |-> <<>>, ryou3 |-> <<>>, ryou4 |-> <<>>,
      tanni |-> tanni,
      bikou |-> IF HadGokei(r1_raw) THEN <<GOKEI>> ELSE <<>>,
      url |-> pdf_url]

\* the dict of lines 232-239 (fewer than 4 columns)
Record2(seibunn, cond, equal_len, c2, i, pdf_url) ==
  LET r1_raw == At(c2, i)
      r1 == _strip_units_for_ryou(StripGokei(r1_raw))
      tanni0 == IF _has_kokusai_tanni(<<r1_raw>>) THEN <<KOKUSAI>> ELSE <<"g">>
      tanni == IF _contains_haigou_fuka(r1) THEN <<>> ELSE tanni0
  IN [seibunn |-> seibunn,
      jouken |-> IF ~equal_len THEN cond ELSE <<>>,
      ryou1 |-> r1, ryou2 |-> <<>>, ryou3 |-> <<>>, ryou4 |-> <<>>,
      tanni |-> tanni,
      bikou |-> IF HadGokei(r1_raw) THEN <<GOKEI>> ELSE <<>>,
      url |-> pdf_url]

\* the dict of lines 241-268 (4 columns or more)
Record4(seibunn, cond, equal_len, c2, c3, c4, i, pdf_url) ==
  LET v2_raw == At(c2, i)
      v3_raw == At(c3, i)
      v4_raw == At(c4, i)
      r1_raw == FirstGokei(<<v2_raw, v3_raw, v4_raw>>)
      had_g == r1_raw # <<>> /\ HadGokei(r1_raw)
      r1 == IF r1_raw # <<>>
            THEN _strip_units_for_ryou(StripGokei(r1_raw)) ELSE <<>>
      tanni0 == IF _has_kokusai_tanni(<<r1_raw, v2_raw, v3_raw, v4_raw>>)
                THEN <<KOKUSAI>> ELSE <<"g">>
      tanni == IF _contains_haigou_fuka(r1) THEN <<>> ELSE tanni0
  IN [seibunn |-> seibunn,
      jouken |-> IF ~equal_len THEN cond ELSE <<>>,
      ryou1 |-> r1,
      ryou2 |-> _strip_units_for_ryou(v2_raw),
      ryou3 |-> _strip_units_for_ryou(v3_raw),
      ryou4 |-> _strip_units_for_ryou(v4_raw),
      tanni |-> tanni,
      bikou |-> IF had_g THEN <<GOKEI>> ELSE <<>>,
      url |-> pdf_url]

\* RowRecords with the condition popped only from two name tokens on
RowRecordsPopFromTwo(row, ncols, pdf_url) ==
  LET c1_0 == _split_tokens(row[1])
      c2 == IF ncols >= 2 THEN _split_tokens(row[2]) ELSE <<>>
      c3 == IF ncols >= 3 THEN _split_tokens(row[3]) ELSE <<>>
      c4 == IF ncols >= 4 THEN _split_tokens(row[4]) ELSE <<>>
      equal_len == Len(c1_0) = Len(c2)
      popped == ~equal_len /\ Len(c1_0) > 1
      cond == IF popped THEN Head(c1_0) ELSE <<>>
      c1 == IF popped THEN Tail(c1_0) ELSE c1_0
      count == Len(c1)
  IN [i \in 1..count |->
        IF ncols < 4
        THEN Record2(c1[i], cond, equal_len, c2, i, pdf_url)
        ELSE Record4(c1[i], cond, equal_len, c2, c3, c4, i, pdf_url)]

\* RowRecords with the condition read from the name tokens, not popped
RowRecordsCondKept(row, ncols, pdf_url) ==
  LET c1 == _split_tokens(row[1])
      c2 == IF ncols >= 2 THEN _split_tokens(row[2]) ELSE <<>>
      c3 == IF ncols >= 3 THEN _split_tokens(row[3]) ELSE <<>>
      c4 == IF ncols >= 4 THEN _split_tokens(row[4]) ELSE <<>>
      equal_len == Len(c1) = Len(c2)
      cond == IF ~equal_len /\ Len(c1) > 0 THEN Head(c1) ELSE <<>>
  IN [i \in 1..Len(c1) |->
        IF ncols < 4
        THEN Record2(c1[i], cond, equal_len, c2, i, pdf_url)
        ELSE Record4(c1[i], cond, equal_len, c2, c3, c4, i, pdf_url)]

\* one pass of "for r in range(len(df))": the records of one row
RowRecords(row, ncols, pdf_url) ==
  LET c1_0 == _split_tokens(row[1])
      c2 == IF ncols >= 2 THEN _split_tokens(row[2]) ELSE <<>>
      c3 == IF ncols >= 3 THEN _split_tokens(row[3]) ELSE <<>>
      c4 == IF ncols >= 4 THEN _split_tokens(row[4]) ELSE <<>>
      equal_len == Len(c1_0) = Len(c2)
      popped == ~equal_len /\ Len(c1_0) > 0
      cond == IF popped THEN Head(c1_0) ELSE <<>>
      c1 == IF popped THEN Tail(c1_0) ELSE c1_0
      count == Len(c1)
  IN [i \in 1..count |->
        IF ncols < 4
        THEN Record2(c1[i], cond, equal_len, c2, i, pdf_url)
        ELSE Record4(c1[i], cond, equal_len, c2, c3, c4, i, pdf_url)]

\* the rows from r on, appended to recs
RECURSIVE RecordsFrom(_, _, _, _)
RecordsFrom(t, r, recs, pdf_url) ==
  IF r > Len(t) THEN recs
  ELSE RecordsFrom(t, r + 1, recs \o RowRecords(t[r], NCols(t), pdf_url),
                   pdf_url)

df_to_records(t, pdf_url) ==
  IF IsEmptyDf(t) THEN <<>> ELSE RecordsFrom(t, 1, <<>>, pdf_url)

-----------------------------------------------------------------------------
(* extract_tables_lattice_only, src/main.py 134-157.  camelot's result is  *)
(* a seq of [page, df]; an exception inside the try leaves items empty,    *)
(* which is the same as a result without tables.                           *)

\* insertion of one item into a list sorted by (page, order)
RECURSIVE InsertItem(_, _)
InsertItem(sorted, it) ==
  IF sorted = <<>> THEN <<it>>
  ELSE IF \/ Head(sorted).page < it.page
          \/ (Head(sorted).page = it.page /\ Head(sorted).order <= it.order)
  THEN <<Head(sorted)>> \o InsertItem(Tail(sorted), it)
  ELSE <<it>> \o sorted

\* items.sort(key=lambda x: (x["page"], x["order"]))
RECURSIVE SortItems(_)
SortItems(its) ==
  IF its = <<>> THEN <<>>
  ELSE InsertItem(SortItems(SubSeq(its, 1, Len(its) - 1)), its[Len(its)])

\* SkipTable without the test of the number of columns
SkipTableRowsOnly(cdf) == IsEmptyDf(cdf) \/ Len(cdf) < 2

\* the test of line 151, on the cleaned df
SkipTable(cdf) == IsEmptyDf(cdf) \/ Len(cdf) < 2 \/ NCols(cdf) < 2

\* the loop of lines 146-153 from table number order (from 0) on
RECURSIVE ExtractFrom(_, _)
ExtractFrom(tables, order) ==
  IF order >= Len(tables) THEN <<>>
  ELSE LET t == tables[order + 1]
           cdf == clean_df(t.df)
       IN (IF SkipTable(cdf) THEN <<>>
           ELSE <<[page |-> t.page, order |-> order, df |-> cdf]>>)
          \o ExtractFrom(tables, order + 1)

extract_tables_lattice_only(tables) == SortItems(ExtractFrom(tables, 0))

-----------------------------------------------------------------------------
(* The worksheet (gspread) and the append routines.  An append routine  *)
(* is a sequence of remote calls (worksheet, add_worksheet,               *)
(* get_all_values, update); other writers of the worksheet can act        *)
(* between any two of them.                                               *)

TODAY == <<"TODAY">>

\* a row of the grid without any value
BlankRow == <<>>

\* ws.get_all_values(): the rows up to the last one that holds a value
RECURSIVE GetAllValues(_)
GetAllValues(ws) ==
  IF ws # <<>> /\ ws[Len(ws)] = BlankRow
  THEN GetAllValues(SubSeq(ws, 1, Len(ws) - 1)) ELSE ws

\* first_empty_row without the + 1
FirstEmptyRowOffByOne(ws) == Len(GetAllValues(ws))

\* first_empty_row, src/main.py 288-290 and src/html_to_table.py 239-242;
\* SheetsClient.get_first_empty_row, src/gcp/sheets_client.py 63-74
first_empty_row(ws) == Len(GetAllValues(ws)) + 1

\* ws.update(f"A{start}:O{end}", rows): the grid after the write
WsUpdate(ws, start, rows) ==
  LET end == start + Len(rows) - 1
      last == IF end > Len(ws) THEN end ELSE Len(ws)
  IN [i \in 1..last |->
        IF start <= i /\ i <= end THEN rows[i - start + 1]
        ELSE IF i <= Len(ws) THEN ws[i] ELSE BlankRow]

\* record_to_row, src/main.py 292-315 (the dicts of df_to_records hold the
\* key seibunn, so "rec.get('seibunn') or rec.get('seibun') or ''" is it)
record_to_row(rec, today_str) ==
  <<0, today_str, 0, rec.seibunn, <<>>, rec.ryou1, rec.jouken, rec.ryou2,
    rec.ryou3, rec.ryou4, rec.tanni, rec.bikou, <<>>, <<>>, rec.url>>

\* SheetsClient._record_to_row, src/gcp/sheets_client.py 106-137
_record_to_row(rec, today_str, url) ==
  <<0, today_str, 0, rec.seibunn, <<>>, rec.ryou1, rec.jouken, rec.ryou2,
    rec.ryou3, rec.ryou4, rec.tanni, rec.bikou, <<>>, <<>>,
    IF rec.url # <<>> THEN rec.url ELSE url>>

\* record_to_row_for_sheet, src/html_to_table.py 245-267
record_to_row_for_sheet(rec, date_str, url) ==
  <<0, date_str, 0, rec.seibunmei, <<>>, rec.hairyou1, <<>>, rec.hairyou2,
    rec.hairyou3, rec.hairyou4, rec.tanni, rec.bikou, <<>>, <<>>, url>>

\* append_records_to_sheet, src/main.py 321-322: the rows of the records
append_records_to_sheet(records) ==
  [i \in 1..Len(records) |-> record_to_row(records[i], TODAY)]

\* SheetsClient.append_records, src/gcp/sheets_client.py 92-95: the rows
append_records(records, url) ==
  [i \in 1..Len(records) |-> _record_to_row(records[i], TODAY, url)]

\* append_records_to_sheet, src/html_to_table.py 274-275: the rows
html_append_records_to_sheet(records, url) ==
  [i \in 1..Len(records) |-> record_to_row_for_sheet(records[i], TODAY, url)]

\* the compatibility wrapper append_records_to_sheet,
\* src/gcp/sheets_client.py 166-196: in both branches the rows are those of
\* _record_to_row without url
compat_append_records_to_sheet(records) == append_records(records, <<>>)

\* an append call in progress: who makes it, the remote call it is at
\* ("open": sh.worksheet, "adding": sh.add_worksheet, "opened":
\* ws.get_all_values, "read": ws.update), its rows and the row it read
Call(who, at, rows) == [who |-> who, at |-> at, rows |-> rows, start |-> 0]

\* where the caller of a call stands once the call has ended
AfterCall(position, who, j, ended) ==
  IF pending[j].who = who THEN ended ELSE position

\* sh.worksheet(title) of open_or_create_worksheet, src/main.py 281-284
\* (src/html_to_table.py 231-234, src/gcp/sheets_client.py 55-57)
StepWorksheet ==
  /\ \E j \in 1..Len(pending) :
       /\ pending[j].at = "open"
       /\ pending' = [pending EXCEPT
                        ![j].at = IF exists THEN "opened" ELSE "adding"]
  /\ UNCHANGED <<prog, pc, items, k, df, ri, all_records, input, sheet, sheet0,
                 appended, nwrites, exists, overlap, other,
                 fn, fn_arg, fn_res, cell, ncalls>>

\* sh.add_worksheet(title) of open_or_create_worksheet, src/main.py 285-286
\* (src/html_to_table.py 235-236, src/gcp/sheets_client.py 58-61): the
\* spreadsheet refuses a title it already has, and nothing catches that
StepAddWorksheet ==
  /\ \E j \in 1..Len(pending) :
       /\ pending[j].at = "adding"
       /\ IF exists
          THEN /\ pending' = ListWithout(pending, j)
               /\ pc' = AfterCall(pc, "main", j, "crashed")
               /\ other' = AfterCall(other, "other", j, "crashed")
          ELSE /\ pending' = [pending EXCEPT ![j].at = "opened"]
               /\ UNCHANGED <<pc, other>>
  /\ exists' = TRUE
  /\ UNCHANGED <<prog, items, k, df, ri, all_records, input, sheet, sheet0,
                 appended, nwrites, overlap, fn, fn_arg, fn_res, cell, ncalls>>

\* "if not records: return", else start = first_empty_row(ws):
\* src/main.py 318-323 (src/html_to_table.py 271-276,
\* src/gcp/sheets_client.py 98 and 187-193)
StepGetAllValues ==
  /\ \E j \in 1..Len(pending) :
       /\ pending[j].at = "opened"
       /\ IF pending[j].rows = <<>>
          THEN /\ pending' = ListWithout(pending, j)
               /\ appended' = Append(appended, <<>>)
               /\ pc' = AfterCall(pc, "main", j, "done")
               /\ other' = AfterCall(other, "other", j, "done")
          ELSE /\ pending' = [pending EXCEPT
                                ![j].at = "read",
                                ![j].start = first_empty_row(sheet)]
               /\ UNCHANGED <<appended, pc, other>>
  /\ UNCHANGED <<prog, items, k, df, ri, all_records, input, sheet, sheet0,
                 nwrites, exists, overlap, fn, fn_arg, fn_res, cell, ncalls>>

\* ws.update(f"A{start}:O{end}", rows), src/main.py 324-326
\* (src/html_to_table.py 277-279, src/gcp/sheets_client.py 99-104 and
\* 194-196), at the row read before
StepUpdate ==
  /\ \E j \in 1..Len(pending) :
       /\ pending[j].at = "read"
       /\ sheet' = WsUpdate(sheet, pending[j].start, pending[j].rows)
       /\ appended' = Append(appended, pending[j].rows)
       /\ overlap' = (overlap \/ \E i \in 1..Len(pending) :
                                   i # j /\ pending[i].at = "read")
       /\ pending' = ListWithout(pending, j)
       /\ pc' = AfterCall(pc, "main", j, "done")
       /\ other' = AfterCall(other, "other", j, "done")
  /\ nwrites' = nwrites + 1
  /\ UNCHANGED <<prog, items, k, df, ri, all_records, input, sheet0, exists,
                 fn, fn_arg, fn_res, cell, ncalls>>

-----------------------------------------------------------------------------
(* html_to_table.py: rows to records *)

HDR1 == <<"HDR1">>
HDR2 == <<"HDR2">>
HDR3 == <<"HDR3">>
EXPECTED_HEADER == <<HDR1, HDR2, HDR3>>

\* re.sub(r"\s+", " ", s)
RECURSIVE CollapseWs(_)
CollapseWs(s) ==
  IF s = <<>> THEN <<>>
  ELSE IF IsWs(Head(s))
  THEN <<SP>> \o CollapseWs(DropLeadingWs(s))
  ELSE <<Head(s)>> \o CollapseWs(Tail(s))

_norm(s) == Strip(CollapseWs(ReplaceAtom(s, FWSP, SP)))

is_header_row(cells) ==
  [i \in 1..Len(cells) |-> _norm(cells[i])]
    = [i \in 1..Len(EXPECTED_HEADER) |-> _norm(EXPECTED_HEADER[i])]

\* the loop of build_tables_rows, lines 117-124, over the tables found; a
\* table is the seq of td_p_texts(tr) of its rows
build_tables_rows(tables) ==
  [t \in 1..Len(tables) |-> SelectSeq(tables[t], LAMBDA row : ~is_header_row(row))]

\* re.search(r"[gｇ]", s)
HasG(s) == Contains(s, "g") \/ Contains(s, GFW)

\* re.sub(r"[gｇ]", "", s)
RemoveG(s) == RemoveAtom(RemoveAtom(s, "g"), GFW)

\* strip_units_and_note: [clean, unit, note]
strip_units_and_note(val) ==
  LET s0 == _norm(val)
      had == Contains(s0, GOKEI)
      s1 == IF had THEN Strip(RemoveAtom(s0, GOKEI)) ELSE s0
      note == IF had THEN <<GOKEI>> ELSE <<>>
      unit1 == IF Contains(s1, KOKUSAI) THEN <<KOKUSAI>> ELSE <<>>
      s2 == RemoveAtom(s1, KOKUSAI)
      unit2 == IF HasG(s2) /\ unit1 = <<>> THEN <<"g">> ELSE unit1
      s3 == IF HasG(s2) THEN RemoveG(s2) ELSE s2
      s4 == _norm(s3)
      unit3 == IF IsNumber(s4) /\ unit2 = <<>> THEN <<"g">> ELSE unit2
  IN [clean |-> s4, unit |-> unit3, note |-> note]

strip_units_and_note_value_only(val) ==
  _norm(RemoveG(RemoveAtom(RemoveAtom(_norm(val), GOKEI), KOKUSAI)))

has_meaningful_values(rec) ==
  \/ Strip(rec.hairyou1) # <<>>
  \/ Strip(rec.hairyou2) # <<>>
  \/ Strip(rec.hairyou3) # <<>>
  \/ Strip(rec.hairyou4) # <<>>
  \/ Strip(rec.tanni) # <<>>
  \/ Strip(rec.bikou) # <<>>

EmptyHtmlRecord ==
  [seibunmei |-> <<>>, hairyou1 |-> <<>>, hairyou2 |-> <<>>, hairyou3 |-> <<>>,
   hairyou4 |-> <<>>, tanni |-> <<>>, bikou |-> <<>>]

row_to_record(row) ==
  IF row = <<>> THEN EmptyHtmlRecord
  ELSE LET rec == [EmptyHtmlRecord EXCEPT !.seibunmei = _norm(row[1])]
       IN IF Len(row) = 1 THEN rec
          ELSE LET v == strip_units_and_note(row[2])
               IN IF Len(row) = 4
                  THEN [rec EXCEPT !.hairyou2 = v.clean, !.tanni = v.unit,
                                   !.bikou = v.note,
                                   !.hairyou3 = strip_units_and_note_value_only(row[3]),
                                   !.hairyou4 = strip_units_and_note_value_only(row[4])]
                  ELSE [rec EXCEPT !.hairyou1 = v.clean, !.tanni = v.unit,
                                   !.bikou = v.note]

\* the filter of main(), line 292
HtmlKeep(rec) == rec.seibunmei # <<>> /\ has_meaningful_values(rec)

-----------------------------------------------------------------------------
(* Inputs of the two programs *)

tA == <<"A">>
tB == <<"B">>
tC == <<"C">>
tX == <<"X">>
tY == <<"Y">>
t5g == <<"5", GFW>>
t1g == <<"1", GFW>>
t05g == <<"0", ".", "5", GFW>>
t1iu == <<"1", KOKUSAI>>
tFuka == <<FUKA>>

\* the cell text of a seq of tokens
Cell(tokens) == Join(tokens, <<SP>>)

\* camelot tables: 成分名 row and one data row
PT_Header ==
  [page |-> 1, df |-> << <<<<FWSP, SEIBUNMEI>>, tX>>, <<tA, t5g>> >>]
\* page numbers only
PT_Digits ==
  [page |-> 1, df |-> << <<<<"1", "5">>, <<"1">>>>, <<<<"5">>, <<>>>> >>]
\* a row with one name token and no amount, then a row of two substances
PT_Malformed ==
  [page |-> 1, df |-> << <<tA, <<>>>>, <<Cell(<<tB, tC>>), Cell(<<t1g, t5g>>)>> >>]
PT_OneCol ==
  [page |-> 1, df |-> << <<tA>>, <<tB>> >>]
PT_ThreeCol ==
  [page |-> 2, df |-> << <<tA, t5g, tX>>, <<tB, t1iu, tY>> >>]
PT_FourCol ==
  [page |-> 2,
   df |-> << <<tA, t5g, <<GOKEI, SP, "1", GFW>>, t05g>>,
             <<Cell(<<tX, tA, tB>>), Cell(<<t1g, t5g>>), <<>>, tFuka>> >>]
\* an amount token in the name column, and a name split in three
PT_Move ==
  [page |-> 1,
   df |-> << <<Cell(<<tA, t5g, tB>>), tX>>, <<Cell(<<tA, tB, tC>>), t1g>> >>]
PT_OneRow ==
  [page |-> 1, df |-> << <<tA, t5g>> >>]
PT_Fuka ==
  [page |-> 2,
   df |-> << <<tA, tFuka>>, <<tB, <<GOKEI, FWSP, "5", SP, KOKUSAI>>>> >>]
\* two names under a condition, no amount
PT_NoAmount ==
  [page |-> 1, df |-> << <<Cell(<<tX, tA, tB>>), <<>>>>, <<tC, t5g>> >>]

PdfTablePool ==
  {PT_Header, PT_Digits, PT_Malformed, PT_OneCol, PT_ThreeCol, PT_FourCol,
   PT_Move, PT_OneRow, PT_Fuka, PT_NoAmount}

\* DOM tables: the td_p_texts of their rows
HT_Header == << EXPECTED_HEADER, <<tA, <<"5", "g">>>> >>
HT_NameOnly == << <<tA>>, <<tB, <<>>>> >>
HT_Three == << <<tA, t5g, tX>> >>
HT_Four ==
  << <<tA, <<GOKEI, SP, "5", "g">>, t1iu, <<"0", ".", "5">>>>, <<<<>>, <<"5">>>> >>
HT_Empty == << >>
HT_Num == << <<tB, <<"5">>>>, <<tC, tFuka>> >>

HtmlTablePool == {HT_Header, HT_NameOnly, HT_Three, HT_Four, HT_Empty, HT_Num}

\* a row already on the sheet
OldRow == <<0, <<"OLD">>, 0, tY, <<>>, <<"1">>, <<>>, <<>>, <<>>, <<>>, <<"g">>,
            <<>>, <<>>, <<>>, URL>>

\* the worksheet before the run: missing (open_or_create_worksheet then adds
\* it, empty) or holding a row
InitialSheets == {<<>>, <<OldRow>>}

PdfInputs == SeqsUpTo(PdfTablePool, MaxTables)

\* contents: whether pick_contents_node finds the node
HtmlInputs ==
  {[contents |-> TRUE, tables |-> ts] : ts \in SeqsUpTo(HtmlTablePool, MaxTables)}
    \cup {[contents |-> FALSE, tables |-> <<>>]}

-----------------------------------------------------------------------------
(* The two programs: main() of src/main.py and of src/html_to_table.py *)

\* Extend that puts the new records in front
ExtendFront(all, recs) == recs \o all

\* all_records.extend(recs), src/main.py 353
Extend(all, recs) == all \o recs

IdleHarness ==
  /\ fn = "none" /\ fn_arg = <<>> /\ fn_res = <<>> /\ cell = <<>> /\ ncalls = 0

Init ==
  /\ prog \in {"pdf", "html"}
  /\ pc = "start"
  /\ input \in (IF prog = "pdf" THEN PdfInputs ELSE HtmlInputs)
  /\ items = <<>> /\ k = 1 /\ df = <<>> /\ ri = 1
  /\ all_records = <<>>
  /\ sheet \in InitialSheets
  /\ exists = (sheet # <<>>)
  /\ sheet0 = sheet
  /\ appended = <<>>
  /\ nwrites = 0
  /\ pending = <<>> /\ overlap = FALSE /\ other = "idle"
  /\ IdleHarness

\* main.py 339-343
PdfExtract ==
  /\ prog = "pdf" /\ pc = "start"
  /\ items' = extract_tables_lattice_only(input)
  /\ pc' = IF items' = <<>> THEN "failed" ELSE "loop"
  /\ UNCHANGED <<prog, k, df, ri, all_records, input, sheet, sheet0, appended,
                 nwrites, exists, pending, overlap, other, fn, fn_arg, fn_res, cell, ncalls>>

\* main.py 347-349
PdfDrop ==
  /\ prog = "pdf" /\ pc = "loop" /\ k <= Len(items)
  /\ df' = drop_unwanted_rows(items[k].df)
  /\ pc' = "dropped"
  /\ UNCHANGED <<prog, items, k, ri, all_records, input, sheet, sheet0,
                 appended, nwrites, exists, pending, overlap, other, fn, fn_arg, fn_res, cell, ncalls>>

\* main.py 350
PdfMove ==
  /\ prog = "pdf" /\ pc = "dropped"
  /\ df' = move_amount_token_from_col1_to_col2(df)
  /\ pc' = "moved"
  /\ UNCHANGED <<prog, items, k, ri, all_records, input, sheet, sheet0,
                 appended, nwrites, exists, pending, overlap, other, fn, fn_arg, fn_res, cell, ncalls>>

\* main.py 351
PdfSquash ==
  /\ prog = "pdf" /\ pc = "moved"
  /\ df' = squash_left_when_many_tokens_and_right_one(df)
  /\ pc' = "squashed"
  /\ UNCHANGED <<prog, items, k, ri, all_records, input, sheet, sheet0,
                 appended, nwrites, exists, pending, overlap, other, fn, fn_arg, fn_res, cell, ncalls>>

\* main.py 352-353
PdfRecords ==
  /\ prog = "pdf" /\ pc = "squashed"
  /\ all_records' = Extend(all_records, df_to_records(df, URL))
  /\ k' = k + 1
  /\ pc' = "loop"
  /\ UNCHANGED <<prog, items, df, ri, input, sheet, sheet0, appended, nwrites, exists, pending, overlap, other,
                 fn, fn_arg, fn_res, cell, ncalls>>

\* main.py 365-369: the append phase begins; the remote calls of
\* connect_gspread, open_or_create_worksheet and append_records_to_sheet
\* follow one by one
PdfAppend ==
  /\ prog = "pdf" /\ pc = "loop" /\ k > Len(items)
  /\ pending' = Append(pending,
                   Call("main", "open", append_records_to_sheet(all_records)))
  /\ pc' = "append"
  /\ UNCHANGED <<prog, items, k, df, ri, all_records, input, sheet, sheet0,
                 appended, nwrites, exists, overlap, other,
                 fn, fn_arg, fn_res, cell, ncalls>>

\* html_to_table.py 285 (build_tables_rows raises when contents is None)
HtmlBuild ==
  /\ prog = "html" /\ pc = "start"
  /\ items' = IF input.contents THEN build_tables_rows(input.tables) ELSE <<>>
  /\ pc' = IF input.contents THEN "loop" ELSE "failed"
  /\ UNCHANGED <<prog, k, df, ri, all_records, input, sheet, sheet0, appended,
                 nwrites, exists, pending, overlap, other, fn, fn_arg, fn_res, cell, ncalls>>

\* html_to_table.py 290-293: one row
HtmlRow ==
  /\ prog = "html" /\ pc = "loop" /\ k <= Len(items) /\ ri <= Len(items[k])
  /\ LET rec == row_to_record(items[k][ri])
     IN all_records' = IF HtmlKeep(rec) THEN Append(all_records, rec)
                       ELSE all_records
  /\ ri' = ri + 1
  /\ UNCHANGED <<prog, pc, items, k, df, input, sheet, sheet0, appended,
                 nwrites, exists, pending, overlap, other, fn, fn_arg, fn_res, cell, ncalls>>

\* html_to_table.py 289: the next table
HtmlNextTable ==
  /\ prog = "html" /\ pc = "loop" /\ k <= Len(items) /\ ri > Len(items[k])
  /\ k' = k + 1
  /\ ri' = 1
  /\ UNCHANGED <<prog, pc, items, df, all_records, input, sheet, sheet0,
                 appended, nwrites, exists, pending, overlap, other, fn, fn_arg, fn_res, cell, ncalls>>

\* html_to_table.py 300-303: the append phase begins
HtmlAppend ==
  /\ prog = "html" /\ pc = "loop" /\ k > Len(items)
  /\ pending' = Append(pending,
                   Call("main", "open",
                        html_append_records_to_sheet(all_records, URL)))
  /\ pc' = "append"
  /\ UNCHANGED <<prog, items, k, df, ri, all_records, input, sheet, sheet0,
                 appended, nwrites, exists, overlap, other,
                 fn, fn_arg, fn_res, cell, ncalls>>

\* the records a second run of html_to_table.py has for the worksheet
OtherRecords == <<row_to_record(HT_Num[1]), row_to_record(HT_Num[2])>>

\* html_to_table.py 300-303 of a second run, on the same SPREADSHEET_ID and
\* sheet title, beginning its append phase while this run is in its own
\* (what either run does before touches no shared state)
OtherAppend ==
  /\ pc = "append" /\ other = "idle"
  /\ pending' = Append(pending,
                   Call("other", "open",
                        html_append_records_to_sheet(OtherRecords, URL)))
  /\ other' = "append"
  /\ UNCHANGED <<prog, pc, items, k, df, ri, all_records, input, sheet, sheet0,
                 appended, nwrites, exists, overlap,
                 fn, fn_arg, fn_res, cell, ncalls>>

Next ==
  \/ PdfExtract \/ PdfDrop \/ PdfMove \/ PdfSquash \/ PdfRecords \/ PdfAppend
  \/ HtmlBuild \/ HtmlRow \/ HtmlNextTable \/ HtmlAppend
  \/ OtherAppend
  \/ StepWorksheet \/ StepAddWorksheet \/ StepGetAllValues \/ StepUpdate

Spec == Init /\ [][Next]_vars

-----------------------------------------------------------------------------
(* Function harness: one stage of the PDF pipeline applied to one table    *)

FunTok0 == {tA, tB, t5g}
FunTok1 == {tX, t1iu}

\* the cells right of column 1, by number of columns of the table
ExtraCells(ncols) ==
  IF ncols = 2 THEN <<>>
  ELSE IF ncols = 3 THEN <<tY>>
  ELSE <<<<GOKEI, "1", GFW>>, t05g>>

\* a well-formed row beside the row under test
OtherRow(ncols) == <<tC, t1g>> \o ExtraCells(ncols)

\* a table of ncols columns around the row of the token lists c0 and c1:
\* the row alone, before a well-formed row, or after one
FunTable(ncols, c0, c1, shape) ==
  LET row == <<Cell(c0), Cell(c1)>> \o ExtraCells(ncols)
  IN IF shape = "alone" THEN <<row>>
     ELSE IF shape = "first" THEN <<row, OtherRow(ncols)>>
     ELSE <<OtherRow(ncols), row>>

IdlePrograms ==
  /\ prog = "none" /\ pc = "none" /\ items = <<>> /\ k = 1 /\ df = <<>> /\ ri = 1
  /\ all_records = <<>> /\ input = <<>>

IdleSheet ==
  /\ sheet = <<>> /\ sheet0 = <<>> /\ appended = <<>> /\ nwrites = 0
  /\ exists = FALSE /\ pending = <<>> /\ overlap = FALSE /\ other = "idle"

InitFun ==
  /\ IdlePrograms /\ IdleSheet
  /\ fn = "none"
  /\ \E ncols \in {2, 3, 4}, shape \in {"alone", "first", "last"} :
       \E c0 \in SeqsUpTo(FunTok0, MaxTok0), c1 \in SeqsUpTo(FunTok1, MaxTok1) :
         fn_arg = FunTable(ncols, c0, c1, shape)
  /\ fn_res = <<>>
  /\ cell = <<>> /\ ncalls = 0

FnFrame ==
  UNCHANGED <<prog, pc, items, k, df, ri, all_records, input, sheet, sheet0,
              appended, nwrites, exists, pending, overlap, other, fn_arg, cell, ncalls>>

FnDrop ==
  /\ fn = "none"
  /\ fn' = "drop_unwanted_rows"
  /\ fn_res' = drop_unwanted_rows(fn_arg)
  /\ FnFrame

FnMove ==
  /\ fn = "none"
  /\ fn' = "move_amount_token_from_col1_to_col2"
  /\ fn_res' = move_amount_token_from_col1_to_col2(fn_arg)
  /\ FnFrame

FnSquash ==
  /\ fn = "none"
  /\ fn' = "squash_left_when_many_tokens_and_right_one"
  /\ fn_res' = squash_left_when_many_tokens_and_right_one(fn_arg)
  /\ FnFrame

FnRecords ==
  /\ fn = "none"
  /\ fn' = "df_to_records"
  /\ fn_res' = df_to_records(fn_arg, URL)
  /\ FnFrame

NextFun == FnDrop \/ FnMove \/ FnSquash \/ FnRecords

SpecFun == InitFun /\ [][NextFun]_vars

-----------------------------------------------------------------------------
(* Normalizer harness: _strip_cell applied to one cell, again and again    *)

CellAtoms == {SP, FWSP, TAB, LPAR, RPAR, COMMA, GOKEI, KOKUSAI, ETHYL, "A"}

InitCell ==
  /\ IdlePrograms /\ IdleSheet
  /\ fn = "none" /\ fn_arg = <<>> /\ fn_res = <<>>
  /\ cell \in SeqsUpTo(CellAtoms, MaxCellLen)
  /\ ncalls = 0

Normalize ==
  /\ ncalls < MaxCalls
  /\ cell' = _strip_cell(cell)
  /\ ncalls' = ncalls + 1
  /\ UNCHANGED <<prog, pc, items, k, df, ri, all_records, input, sheet, sheet0,
                 appended, nwrites, exists, pending, overlap, other, fn, fn_arg, fn_res>>

NextCell == Normalize

SpecCell == InitCell /\ [][NextCell]_vars

-----------------------------------------------------------------------------
(* Row harness: drop_unwanted_rows applied to one table of 1..MaxCols      *)
(* columns                                                                 *)

\* cell texts: empty, digits (bare and padded), digits with a space inside,
\* nan, a name, and 成分名 between whitespace
RowCells ==
  {<<>>, <<"5">>, <<SP, "1", "5">>, <<"1", SP, "5">>, <<NAN>>, tA,
   <<FWSP, SEIBUNMEI, SP>>}

\* a row of ncols cells that the classifier keeps: a name, then empty cells
NameRow(name, ncols) == <<name>> \o [i \in 1..(ncols - 1) |-> <<>>]

\* the row alone, or between two kept rows
RowTable(row, shape) ==
  IF shape = "alone" THEN <<row>>
  ELSE <<NameRow(tB, Len(row)), row, NameRow(tC, Len(row))>>

InitRows ==
  /\ IdlePrograms /\ IdleSheet
  /\ fn = "none"
  /\ \E ncols \in 1..MaxCols, shape \in {"alone", "middle"} :
       \E row \in [1..ncols -> RowCells] : fn_arg = RowTable(row, shape)
  /\ fn_res = <<>>
  /\ cell = <<>> /\ ncalls = 0

NextRows == FnDrop

SpecRows == InitRows /\ [][NextRows]_vars

-----------------------------------------------------------------------------
(* Synthesizer harness: df_to_records applied to a table of one row and    *)
(* 2..5 columns                                                            *)

tG1g == <<GOKEI, "1", GFW>>
tG5iu == <<GOKEI, "5", KOKUSAI>>
tGFuka == <<GOKEI, FUKA>>
tIuFuka == <<"1", KOKUSAI, FUKA2>>

SynNames == {tA, tB}

\* the tokens of column 1, by number of columns of the table
SynAmounts(ncols) ==
  IF ncols < 4 THEN {t5g, t1iu, tG1g, tG5iu, tFuka, tIuFuka}
  ELSE {t5g, t1iu, tG1g}

\* the tokens of columns 2 and 3 of a table of 4 columns or more
SynCol2 == {t05g, tG5iu}
SynCol3 == {t1iu, tGFuka}

\* the cells right of column 1
SynExtra(ncols, c3, c4) ==
  IF ncols = 2 THEN <<>>
  ELSE IF ncols = 3 THEN <<tY>>
  ELSE IF ncols = 4 THEN <<Cell(c3), Cell(c4)>>
  ELSE <<Cell(c3), Cell(c4), tY>>

\* the row of one name beside 5ｇ, 合計量として10ｇ and 15ｇ
SynGamma == << <<tC, t5g, <<GOKEI, "1", "0", GFW>>, <<"1", "5", GFW>>>> >>

InitSyn ==
  /\ IdlePrograms /\ IdleSheet
  /\ fn = "none"
  /\ \/ \E ncols \in 2..5 :
          \E c1 \in SeqsUpTo(SynNames, MaxNames),
             c2 \in SeqsUpTo(SynAmounts(ncols), MaxAmounts),
             c3 \in SeqsUpTo(SynCol2, IF ncols < 4 THEN 0 ELSE MaxExtra),
             c4 \in SeqsUpTo(SynCol3, IF ncols < 4 THEN 0 ELSE MaxExtra) :
            fn_arg = << <<Cell(c1), Cell(c2)>> \o SynExtra(ncols, c3, c4) >>
     \/ fn_arg = SynGamma
  /\ fn_res = <<>>
  /\ cell = <<>> /\ ncalls = 0

NextSyn == FnRecords

SpecSyn == InitSyn /\ [][NextSyn]_vars

-----------------------------------------------------------------------------
(* Sheet harness: append calls, in any interleaving, on one worksheet     *)

\* what main() of main.py makes of one table
PdfRecordsOf(t) ==
  df_to_records(
    squash_left_when_many_tokens_and_right_one(
      move_amount_token_from_col1_to_col2(
        drop_unwanted_rows(clean_df(t.df)))), URL)

\* what main() of html_to_table.py makes of one table, rows from r on
RECURSIVE HtmlRecordsFrom(_, _)
HtmlRecordsFrom(table, r) ==
  IF r > Len(table) THEN <<>>
  ELSE LET rec == row_to_record(table[r])
       IN (IF HtmlKeep(rec) THEN <<rec>> ELSE <<>>)
          \o HtmlRecordsFrom(table, r + 1)

PdfBatches ==
  {<<>>, PdfRecordsOf(PT_Header), PdfRecordsOf(PT_Malformed)}

HtmlBatches ==
  {<<>>, HtmlRecordsFrom(HT_Header, 1), HtmlRecordsFrom(HT_Num, 1)}

\* a record without url, as SheetsClient.append_records may be given
NoUrl(recs) == [i \in 1..Len(recs) |-> [recs[i] EXCEPT !.url = <<>>]]

ClientBatches == PdfBatches \cup {NoUrl(PdfRecordsOf(PT_Header))}

InitSheet ==
  /\ IdlePrograms
  /\ exists \in BOOLEAN
  /\ sheet \in (IF exists THEN InitialSheets ELSE {<<>>})
  /\ sheet0 = sheet
  /\ appended = <<>>
  /\ nwrites = 0
  /\ pending = <<>> /\ overlap = FALSE /\ other = "idle"
  /\ IdleHarness

SheetFrame ==
  UNCHANGED <<prog, pc, items, k, df, ri, all_records, input, sheet, sheet0,
              nwrites, exists, overlap, other, fn, fn_arg, fn_res, cell>>

\* a routine is called with records: without records it returns at once
\* (src/main.py 318-320), else its remote calls follow from the one named
BeginCall(at, records, rows) ==
  /\ ncalls' = ncalls + 1
  /\ IF records = <<>>
     THEN appended' = Append(appended, <<>>) /\ pending' = pending
     ELSE appended' = appended /\ pending' = Append(pending, Call("call", at, rows))
  /\ SheetFrame

\* append_records_to_sheet(ws, records) of main.py, 317-326, on a worksheet
\* opened before
SheetAppendPdf ==
  /\ ncalls < MaxAppends /\ exists
  /\ \E records \in PdfBatches :
       BeginCall("opened", records, append_records_to_sheet(records))

\* append_records_to_sheet(ws, records, url) of html_to_table.py, 270-279
SheetAppendHtml ==
  /\ ncalls < MaxAppends /\ exists
  /\ \E records \in HtmlBatches :
       BeginCall("opened", records, html_append_records_to_sheet(records, URL))

\* SheetsClient.append_records(spreadsheet_id, sheet_title, records, url),
\* src/gcp/sheets_client.py 76-104: it opens the worksheet itself
SheetAppendClient ==
  /\ ncalls < MaxAppends
  /\ \E records \in ClientBatches, url \in {URL, <<>>} :
       BeginCall("open", records, append_records(records, url))

\* append_records_to_sheet(ws_or_client, records, ...), the compatibility
\* wrapper of src/gcp/sheets_client.py 166-196: given a SheetsClient it
\* calls append_records without url, given a worksheet it reads and writes
SheetAppendCompat ==
  /\ ncalls < MaxAppends
  /\ \E records \in ClientBatches, has_append_records \in BOOLEAN :
       /\ has_append_records \/ exists
       /\ BeginCall(IF has_append_records THEN "open" ELSE "opened", records,
                    compat_append_records_to_sheet(records))

NextSheet ==
  \/ SheetAppendPdf \/ SheetAppendHtml \/ SheetAppendClient \/ SheetAppendCompat
  \/ StepWorksheet \/ StepAddWorksheet \/ StepGetAllValues \/ StepUpdate

SpecSheet == InitSheet /\ [][NextSheet]_vars

-----------------------------------------------------------------------------
(* Claims *)

\* the elements of s at the indices in I, in order
KeepIdx(s, I) ==
  LET F[i \in 0..Len(s)] ==
        IF i = 0 THEN <<>>
        ELSE IF i \in I THEN Append(F[i - 1], s[i]) ELSE F[i - 1]
  IN F[Len(s)]

\* the sum of f[i] over i in 1..n
SumTo(f, n) ==
  LET S[i \in 0..n] == IF i = 0 THEN 0 ELSE S[i - 1] + f[i]
  IN S[n]

\* C1: the Cell Normalizer is idempotent: once _strip_cell has been applied
\* to a cell, applying it again changes nothing (specification SpecCell).
C1_Idempotent == [][ncalls >= 1 => cell' = cell]_vars

\* the Record Filter predicate on a record of main.py
RecordFilterPdf(rec) ==
  /\ rec.seibunn # <<>>
  /\ \/ rec.ryou1 # <<>> \/ rec.ryou2 # <<>> \/ rec.ryou3 # <<>>
     \/ rec.ryou4 # <<>> \/ rec.tanni # <<>> \/ rec.bikou # <<>>

\* the Record Filter predicate on a record of html_to_table.py
RecordFilterHtml(rec) ==
  /\ rec.seibunmei # <<>>
  /\ \/ rec.hairyou1 # <<>> \/ rec.hairyou2 # <<>> \/ rec.hairyou3 # <<>>
     \/ rec.hairyou4 # <<>> \/ rec.tanni # <<>> \/ rec.bikou # <<>>

\* C2: every record either program collects for the sheet-append step has a
\* non-empty substance name and at least one non-empty field among amount1,
\* amount2, amount3, amount4, unit, note.
C2_RecordsPassFilter ==
  \A i \in 1..Len(all_records) :
    IF prog = "pdf" THEN RecordFilterPdf(all_records[i])
    ELSE RecordFilterHtml(all_records[i])

\* C2 witness: main.py has appended a record without unit (配合不可) and one
\* without amount, both of which pass the predicate
C2_Witness ==
  /\ prog = "pdf" /\ pc = "done"
  /\ \E i \in 1..Len(all_records) : all_records[i].tanni = <<>>
  /\ \E i \in 1..Len(all_records) : all_records[i].ryou1 = <<>>

\* the name tokens a row fans out to: the tokens of column 0, without the
\* first one when the token counts of columns 0 and 1 differ
FanOutNames(row) ==
  LET c1 == _split_tokens(row[1])
      c2 == IF Len(row) >= 2 THEN _split_tokens(row[2]) ELSE <<>>
  IN IF Len(c1) = Len(c2) \/ c1 = <<>> THEN c1 ELSE Tail(c1)

\* the table the Synthesizer is given for an extracted table
Staged(t) ==
  squash_left_when_many_tokens_and_right_one(
    move_amount_token_from_col1_to_col2(drop_unwanted_rows(t)))

\* the records of one extracted table: row by row, fan-out index by index
TableRecords(t) ==
  LET d == Staged(t)
  IN Concat([r \in 1..Len(d) |->
       LET recs == RowRecords(d[r], NCols(d), URL)
       IN [i \in 1..Len(FanOutNames(d[r])) |-> recs[i]]])

\* the records of the rows of one DOM table that pass the filter
HtmlTableRecords(table) ==
  LET recs == [r \in 1..Len(table) |-> row_to_record(table[r])]
  IN KeepIdx(recs, {r \in 1..Len(table) : RecordFilterHtml(recs[r])})

\* the names in a seq of records of main.py
NamesOf(recs) == [i \in 1..Len(recs) |-> recs[i].seibunn]

\* items holds the cleaned tables that have two rows and two columns or
\* more, ordered by page and, within a page, by position in the input
ItemsInExtractionOrder ==
  /\ \A j \in 1..Len(items) :
       /\ items[j].order + 1 \in 1..Len(input)
       /\ items[j].page = input[items[j].order + 1].page
       /\ items[j].df = clean_df(input[items[j].order + 1].df)
  /\ \A i, j \in 1..Len(items) :
       i < j => \/ items[i].page < items[j].page
                \/ /\ items[i].page = items[j].page
                   /\ items[i].order < items[j].order
  /\ \A o \in 1..Len(input) :
       (Len(input[o].df) >= 2 /\ Len(input[o].df[1]) >= 2)
         => \E j \in 1..Len(items) : items[j].order = o - 1

\* C3: the output is the concatenation, over the tables in extraction order,
\* of each table's records in row order and fan-out index order, and the
\* records of one table are a function of that table alone.
C3_OutputIsConcatenation ==
  /\ (prog = "pdf" /\ pc # "start") =>
       /\ ItemsInExtractionOrder
       /\ all_records
            = Concat([j \in 1..(k - 1) |-> TableRecords(items[j].df)])
       /\ NamesOf(all_records)
            = Concat([j \in 1..(k - 1) |->
                LET d == Staged(items[j].df)
                IN Concat([r \in 1..Len(d) |-> FanOutNames(d[r])])])
  /\ (prog = "html" /\ pc # "start" /\ pc # "failed") =>
       /\ Len(items) = Len(input.tables)
       /\ all_records
            = Concat([j \in 1..(k - 1) |-> HtmlTableRecords(items[j])])
              \o (IF k <= Len(items)
                  THEN HtmlTableRecords(SubSeq(items[k], 1, ri - 1))
                  ELSE <<>>)

\* C3 witness: main.py is done with two different tables, swapped by the
\* sort, one of which fanned a row out to two records
C3_Witness ==
  /\ prog = "pdf" /\ pc = "done"
  /\ Len(items) = 2 /\ items[1].order = 1
  /\ TableRecords(items[1].df) # <<>>
  /\ TableRecords(items[2].df) # <<>>
  /\ TableRecords(items[1].df) # TableRecords(items[2].df)
  /\ \E r \in 1..Len(items[2].df) : Len(FanOutNames(items[2].df[r])) >= 2

\* C4: a run that ends with an empty record sequence ends in failure: the
\* normal completion is never reached with zero records.
C4_EmptyRunFails == pc = "done" => all_records # <<>>

\* the number of cells of the rows of a camelot table
RawCols(t) == IF t.df = <<>> THEN 0 ELSE Len(t.df[1])

\* C5 as claimed: a run whose tables (HTML: rows) all have 1 or 3 columns
\* completes without any record.
C5_OddShapesYieldNothing ==
  /\ (prog = "pdf" /\ pc = "done"
        /\ \A o \in 1..Len(input) : RawCols(input[o]) \in {1, 3})
       => all_records = <<>>
  /\ (prog = "html" /\ pc = "done"
        /\ \A t \in 1..Len(items) :
             \A r \in 1..Len(items[t]) : Len(items[t][r]) \in {1, 3})
       => all_records = <<>>

\* the first two columns of a table
TwoCols(t) == [r \in 1..Len(t) |-> SubSeq(t[r], 1, 2)]

\* the records of a 3-column table under the amended claim: the rows the
\* Row Classifier keeps, synthesized from columns 0 and 1
ThreeColRecords(t) ==
  LET d == TwoCols(Staged(t))
  IN Concat([r \in 1..Len(d) |-> RowRecords(d[r], 2, URL)])

\* the rows of a DOM table under the amended claim: none for a 1-cell row,
\* the first two cells for a 3-cell row
AmendedRows(table) ==
  LET kept == KeepIdx(table, {r \in 1..Len(table) : Len(table[r]) # 1})
  IN [r \in 1..Len(kept) |->
        IF Len(kept[r]) = 3 THEN SubSeq(kept[r], 1, 2) ELSE kept[r]]

\* C5 amended: a 1-column table yields no record (main.py never takes it
\* into items; html_to_table.py filters the name-only record of a 1-cell
\* row) and the run goes on with the other tables; a 3-column table is not
\* skipped: it yields the records of its columns 0 and 1 under the 2-column
\* schema (html_to_table.py: of the first two cells of the row).
C5_OneColumnSkippedThreeAsTwo ==
  /\ (prog = "pdf" /\ pc # "start") =>
       /\ \A j \in 1..Len(items) : NCols(items[j].df) >= 2
       /\ \A o \in 1..Len(input) :
            RawCols(input[o]) >= 2 /\ Len(input[o].df) >= 2
              => \E j \in 1..Len(items) : items[j].order = o - 1
       /\ all_records
            = Concat([j \in 1..(k - 1) |->
                IF NCols(items[j].df) = 3 THEN ThreeColRecords(items[j].df)
                ELSE TableRecords(items[j].df)])
  /\ (prog = "html" /\ pc = "done") =>
       all_records
         = Concat([j \in 1..Len(items) |-> HtmlTableRecords(AmendedRows(items[j]))])

\* C5 witness: main.py is done with a 1-column and a 3-column table in the
\* input, and the 3-column table has yielded records
C5_Witness ==
  /\ prog = "pdf" /\ pc = "done"
  /\ \E o \in 1..Len(input) : RawCols(input[o]) = 1
  /\ Len(items) = 1 /\ NCols(items[1].df) = 3
  /\ all_records # <<>>

\* a row whose name column is empty once the condition is popped
Malformed(row) ==
  /\ Len(_split_tokens(row[1])) = 1
  /\ Len(_split_tokens(row[2])) # 1

\* the table without row r
WithoutRow(t, r) == KeepIdx(t, (1..Len(t)) \ {r})

\* C6: a row with exactly one name token and another number of amount tokens
\* yields no record, and the records of the table are those of the table
\* without that row (specification SpecFun).
C6_MalformedRowYieldsNothing ==
  fn = "df_to_records" =>
    /\ Len(fn_res)
         = SumTo([r \in 1..Len(fn_arg) |->
                    IF Malformed(fn_arg[r]) THEN 0
                    ELSE Len(FanOutNames(fn_arg[r]))], Len(fn_arg))
    /\ \A r \in 1..Len(fn_arg) :
         Malformed(fn_arg[r])
           => fn_res = df_to_records(WithoutRow(fn_arg, r), URL)

\* C6 witness: a malformed row first, and the row after it has yielded
\* its record
C6_Witness ==
  /\ fn = "df_to_records"
  /\ Len(fn_arg) = 2
  /\ Malformed(fn_arg[1])
  /\ Len(fn_res) = 1

\* the 成分名 row of the PDF variant
IsPdfHeaderRow(row) == RemoveAllWs(row[1]) = <<SEIBUNMEI>>

\* the header template row of the HTML variant
IsHtmlHeaderRow(row) ==
  /\ Len(row) = 3
  /\ \A i \in 1..3 : Strip(row[i]) = EXPECTED_HEADER[i]

\* a data row of one name token and one amount token: not a header row,
\* not a row of page numbers
WellFormedRow(row) ==
  /\ Len(row) = 2
  /\ Len(_split_tokens(row[1])) = 1 /\ Len(_split_tokens(row[2])) = 1
  /\ ~IsDigitRow(row)
  /\ ~IsPdfHeaderRow(row)

\* a table of a header row and a well-formed data row
HeaderAndOneRow(t, IsHeader(_)) ==
  /\ Len(t) = 2
  /\ \/ IsHeader(t[1]) /\ WellFormedRow(t[2])
     \/ IsHeader(t[2]) /\ WellFormedRow(t[1])

\* the run has handed exactly one row to ws.update, with the URL in column O
WroteOneRowWithUrl(row) ==
  /\ \E i \in 1..Len(appended) : appended[i] = <<row>>
  /\ row[15] = URL

\* no other writer has touched the worksheet
Alone == other = "idle"

\* C7: header rows yield no record: the records are those of the input
\* without its header rows, and a table of one header row and one
\* well-formed data row yields exactly one record, written with the URL
\* (as the one new row of the worksheet when no other writer is about).
C7_HeaderRowsYieldNothing ==
  /\ (prog = "pdf" /\ pc = "dropped") =>
       \A r \in 1..Len(df) : ~IsPdfHeaderRow(df[r])
  /\ (prog = "pdf" /\ pc # "start") =>
       all_records
         = Concat([j \in 1..(k - 1) |->
             TableRecords(SelectSeq(items[j].df, LAMBDA row : ~IsPdfHeaderRow(row)))])
  /\ (prog = "pdf" /\ pc = "done" /\ Len(input) = 1
        /\ HeaderAndOneRow(clean_df(input[1].df), IsPdfHeaderRow)) =>
       /\ Len(all_records) = 1
       /\ all_records[1].url = URL
       /\ WroteOneRowWithUrl(record_to_row(all_records[1], TODAY))
       /\ Alone => /\ Len(sheet) = Len(sheet0) + 1
                   /\ sheet[Len(sheet)][15] = URL
  /\ (prog = "html" /\ pc = "done") =>
       all_records
         = Concat([j \in 1..Len(input.tables) |->
             HtmlTableRecords(
               SelectSeq(input.tables[j], LAMBDA row : ~IsHtmlHeaderRow(row)))])
  /\ (prog = "html" /\ pc = "done" /\ Len(input.tables) = 1
        /\ HeaderAndOneRow(input.tables[1], IsHtmlHeaderRow)) =>
       /\ Len(all_records) = 1
       /\ WroteOneRowWithUrl(record_to_row_for_sheet(all_records[1], TODAY, URL))
       /\ Alone => /\ Len(sheet) = Len(sheet0) + 1
                   /\ sheet[Len(sheet)][15] = URL

\* C7 witness: main.py is done with a single table of a 成分名 row and one
\* data row, and has written one row
C7_Witness ==
  /\ prog = "pdf" /\ pc = "done"
  /\ Len(input) = 1
  /\ IsPdfHeaderRow(clean_df(input[1].df)[1])
  /\ HeaderAndOneRow(clean_df(input[1].df), IsPdfHeaderRow)
  /\ Len(all_records) = 1
  /\ Alone /\ nwrites = 1
  /\ sheet0 # <<>> /\ Len(sheet) = Len(sheet0) + 1

\* the appends so far were sequential: none wrote between the read and the
\* write of another
Sequential == ~overlap

\* C8: after append calls made one after the other, the worksheet is its
\* first content followed by the rows of all the records appended, in call
\* order (so each call with N >= 1 records on a sheet of R rows fills rows
\* R+1..R+N and leaves rows 1..R alone), and a call with no records makes
\* no write (specification SpecSheet).
C8_AppendsAtFirstUnusedRow ==
  /\ Sequential => sheet = sheet0 \o Concat(appended)
  /\ nwrites = Cardinality({i \in 1..Len(appended) : appended[i] # <<>>})

\* appends that overlap lose rows: a call wrote at the row it read before
\* another call's write, over that call's rows
OverlapLosesRows ==
  /\ overlap /\ pending = <<>>
  /\ Len(sheet) < Len(sheet0) + Len(Concat(appended))

\* C8 witness: on a sheet that held a row, three calls, the second one
\* without records, the others with one and with two records
C8_Witness ==
  /\ Sequential /\ pending = <<>>
  /\ sheet0 # <<>>
  /\ Len(appended) = 3
  /\ Len(appended[1]) = 1 /\ appended[2] = <<>> /\ Len(appended[3]) = 2
  /\ Len(sheet) = Len(sheet0) + 3

\* C9 for one row: the amount tokens at the indices h >= 2 (from 1) of
\* column 0 leave it and sit at index h - 1 of column 1; everything else
\* keeps its place and order
C9Row(inrow, outrow) ==
  LET c1 == _split_tokens(inrow[1])
      c2 == _split_tokens(inrow[2])
      o1 == _split_tokens(outrow[1])
      o2 == _split_tokens(outrow[2])
      hits == {h \in 2..Len(c1) : _TOKEN_IS_AMOUNT(c1[h])}
      targets == {h - 1 : h \in hits}
  IN /\ o1 = KeepIdx(c1, (1..Len(c1)) \ hits)
     /\ \A h \in hits : h - 1 <= Len(o2) /\ o2[h - 1] = c1[h]
     /\ KeepIdx(o2, (1..Len(o2)) \ targets) = c2
     /\ Len(outrow) = Len(inrow)
     /\ \A c \in 3..Len(inrow) : outrow[c] = inrow[c]

\* C9: Token Redistributor, every row: an amount-shaped token at index
\* i >= 1 of column 0 moves to index i - 1 of column 1, one at index 0
\* stays, all other tokens keep their relative order (specification SpecFun).
C9_AmountTokenLandsAtIndex ==
  fn = "move_amount_token_from_col1_to_col2" =>
    /\ Len(fn_res) = Len(fn_arg)
    /\ \A r \in 1..Len(fn_arg) : C9Row(fn_arg[r], fn_res[r])

\* C10: Token Squasher, every row: column 0 of 3 or more tokens beside a
\* column 1 of exactly 1 token becomes the one token that concatenates
\* them; otherwise column 0 is unchanged; the other columns and the rows
\* are unchanged (specification SpecFun).
C10_SquashOnlyManyBesideOne ==
  fn = "squash_left_when_many_tokens_and_right_one" =>
    /\ Len(fn_res) = Len(fn_arg)
    /\ \A r \in 1..Len(fn_arg) :
         LET c1 == _split_tokens(fn_arg[r][1])
             c2 == _split_tokens(fn_arg[r][2])
         IN /\ Len(fn_res[r]) = Len(fn_arg[r])
            /\ IF Len(c1) >= 3 /\ Len(c2) = 1
               THEN /\ fn_res[r][1] = Concat(c1)
                    /\ \A i \in 1..Len(fn_res[r][1]) : ~IsWs(fn_res[r][1][i])
               ELSE fn_res[r][1] = fn_arg[r][1]
            /\ \A c \in 2..Len(fn_arg[r]) : fn_res[r][c] = fn_arg[r][c]

\* C10 witness: a table of two rows; the one of exactly three name tokens
\* beside one amount token is squashed, the one of a single name token is
\* left as it was
C10_Witness ==
  /\ fn = "squash_left_when_many_tokens_and_right_one"
  /\ Len(fn_arg) = 2
  /\ \E r \in 1..2 :
       /\ Len(_split_tokens(fn_arg[r][1])) = 3
       /\ Len(_split_tokens(fn_arg[r][2])) = 1
       /\ fn_res[r][1] # fn_arg[r][1]
       /\ Len(_split_tokens(fn_res[r][1])) = 1
  /\ \E r \in 1..2 :
       /\ Len(_split_tokens(fn_arg[r][1])) = 1
       /\ fn_res[r] = fn_arg[r]

\* the cells of a row that are, stripped, neither empty nor nan
C11NonEmpty(row) ==
  {i \in 1..Len(row) : Strip(row[i]) # <<>> /\ Strip(row[i]) # <<NAN>>}

\* of these, the ones that are digits only
C11DigitOnly(row) ==
  {i \in C11NonEmpty(row) :
     \A j \in 1..Len(Strip(row[i])) : Strip(row[i])[j] \in Digits}

\* (a) or (b) of the claim
C11Dropped(row) ==
  \/ /\ C11NonEmpty(row) # {}
     /\ 5 * Cardinality(C11DigitOnly(row)) >= 4 * Cardinality(C11NonEmpty(row))
  \/ SelectSeq(row[1], LAMBDA c : c \notin {SP, TAB, FWSP}) = <<SEIBUNMEI>>

\* C11: Row Classifier: the result is the table without exactly the rows
\* that (a) have a non-empty, non-nan cell and at least 80% digit-only cells
\* among their non-empty cells, or (b) have 成分名 in column 0 once the
\* whitespace is removed; the rows kept are in their original order
\* (specification SpecRows).
C11_DroppedIffDigitsOrHeader ==
  fn = "drop_unwanted_rows" =>
    fn_res = KeepIdx(fn_arg, {r \in 1..Len(fn_arg) : ~C11Dropped(fn_arg[r])})

\* C11 witness: between two kept rows, a row of five non-empty cells, four
\* of them digits only, is dropped
C11_Witness ==
  /\ fn = "drop_unwanted_rows"
  /\ Len(fn_arg) = 3
  /\ Len(fn_arg[2]) = 5
  /\ Cardinality(C11NonEmpty(fn_arg[2])) = 5
  /\ Cardinality(C11DigitOnly(fn_arg[2])) = 4
  /\ fn_res = <<fn_arg[1], fn_arg[3]>>

\* tok without the atoms in S
Without(tok, S) == SelectSeq(tok, LAMBDA a : a \notin S)

\* the tokens of column c of the row of the table under test
SynTokens(c) == _split_tokens(fn_arg[1][c])

\* the amount that record rec pairs with its name: amount1 in a table of
\* fewer than 4 columns, amount2 (column 1) in a wider one
PairedAmount(rec) == IF Len(fn_arg[1]) < 4 THEN rec.ryou1 ELSE rec.ryou2

\* the bare value of the amount token at index i, empty when out of range
BareAmount(amounts, i) ==
  IF i > Len(amounts) THEN <<>>
  ELSE Without(amounts[i],
               IF Len(fn_arg[1]) < 4 THEN {GOKEI, GFW, KOKUSAI}
               ELSE {GFW, KOKUSAI})

\* C12: condition peeling and fan-out count: with as many name tokens as
\* amount tokens the row yields one record per name token, each without
\* condition; with another number and at least one name token the first
\* name token is the condition of every record, the row yields one record
\* per remaining name token, and the i-th remaining name token goes with the
\* i-th amount token, or with an empty amount (specification SpecSyn).
C12_ConditionPeeledWhenCountsDiffer ==
  fn = "df_to_records" =>
    LET names == SynTokens(1)
        amounts == SynTokens(2)
    IN IF Len(names) = Len(amounts)
       THEN /\ Len(fn_res) = Len(names)
            /\ \A i \in 1..Len(fn_res) :
                 /\ fn_res[i].seibunn = names[i]
                 /\ fn_res[i].jouken = <<>>
                 /\ PairedAmount(fn_res[i]) = BareAmount(amounts, i)
       ELSE names # <<>> =>
            /\ Len(fn_res) = Len(names) - 1
            /\ \A i \in 1..Len(fn_res) :
                 /\ fn_res[i].seibunn = names[i + 1]
                 /\ fn_res[i].jouken = names[1]
                 /\ PairedAmount(fn_res[i]) = BareAmount(amounts, i)

\* C12 witness: three name tokens beside one amount token: two records
\* under the condition of the first name token, the second without amount
C12_Witness ==
  /\ fn = "df_to_records"
  /\ Len(SynTokens(1)) = 3 /\ Len(SynTokens(2)) = 1
  /\ Len(fn_res) = 2
  /\ fn_res[1].jouken = SynTokens(1)[1] /\ fn_res[2].jouken = SynTokens(1)[1]
  /\ fn_res[1].ryou1 # <<>> /\ fn_res[2].ryou1 = <<>>

\* the name tokens of the row under test that are fanned out: all of them,
\* or all but the first when the condition is peeled
FannedNames ==
  IF Len(SynTokens(1)) = Len(SynTokens(2)) \/ SynTokens(1) = <<>>
  THEN SynTokens(1) ELSE Tail(SynTokens(1))

\* the raw value of column c for record i, empty when out of range
RawValue(c, i) ==
  IF c <= Len(fn_arg[1]) /\ i <= Len(SynTokens(c)) THEN SynTokens(c)[i]
  ELSE <<>>

\* C13: 2-column synthesis: in a table of fewer than 4 columns, record i of
\* a row has the i-th fanned-out name, amount1 = c2[i] without the
\* aggregate-total, weight and international-unit markers (empty when i is
\* out of range), amount2..amount4 empty, note = aggregate-total exactly
\* when c2[i] holds that marker, and the URL passed for the table
\* (specification SpecSyn).
C13_TwoColumnRecordFields ==
  (fn = "df_to_records" /\ Len(fn_arg[1]) < 4) =>
    /\ Len(fn_res) = Len(FannedNames)
    /\ \A i \in 1..Len(fn_res) :
         /\ fn_res[i].seibunn = FannedNames[i]
         /\ fn_res[i].ryou1 = Without(RawValue(2, i), {GOKEI, GFW, KOKUSAI})
         /\ fn_res[i].ryou2 = <<>>
         /\ fn_res[i].ryou3 = <<>>
         /\ fn_res[i].ryou4 = <<>>
         /\ fn_res[i].bikou
              = (IF \E j \in 1..Len(RawValue(2, i)) : RawValue(2, i)[j] = GOKEI
                 THEN <<GOKEI>> ELSE <<>>)
         /\ fn_res[i].url = URL

\* C13 witness: a table of 3 columns; the first record has an amount with
\* the aggregate-total marker and the note, the second is out of range and
\* has neither
C13_Witness ==
  /\ fn = "df_to_records"
  /\ Len(fn_arg[1]) = 3
  /\ Len(fn_res) = 2
  /\ RawValue(2, 1) = tG1g
  /\ fn_res[1].ryou1 = <<"1">> /\ fn_res[1].bikou = <<GOKEI>>
  /\ RawValue(2, 2) = <<>>
  /\ fn_res[2].ryou1 = <<>> /\ fn_res[2].bikou = <<>>
  /\ fn_res[2].url = URL

\* v holds the aggregate-total marker
HasMarker(v, marker) == \E j \in 1..Len(v) : v[j] = marker

\* the aggregate-total source value of record i: the first of v2, v3, v4
\* that holds the marker, empty if none does
GokeiSource(i) ==
  IF HasMarker(RawValue(2, i), GOKEI) THEN RawValue(2, i)
  ELSE IF HasMarker(RawValue(3, i), GOKEI) THEN RawValue(3, i)
  ELSE IF HasMarker(RawValue(4, i), GOKEI) THEN RawValue(4, i)
  ELSE <<>>

\* C14: 4-column aggregate-total scan: in a table of 4 columns or more,
\* amount1 of record i is the first of v2, v3, v4 that holds the
\* aggregate-total marker, without that marker and the unit markers, and
\* note = aggregate-total; when none holds it amount1 and note are empty
\* (specification SpecSyn).
C14_FirstAggregateTotalWins ==
  (fn = "df_to_records" /\ Len(fn_arg[1]) >= 4) =>
    \A i \in 1..Len(fn_res) :
      IF GokeiSource(i) # <<>>
      THEN /\ fn_res[i].ryou1 = Without(GokeiSource(i), {GOKEI, GFW, KOKUSAI})
           /\ fn_res[i].bikou = <<GOKEI>>
      ELSE /\ fn_res[i].ryou1 = <<>>
           /\ fn_res[i].bikou = <<>>

\* C14 witness: v2, v3 and v4 of a record all hold the marker, and amount1
\* is the value of v2
C14_Witness ==
  /\ fn = "df_to_records"
  /\ Len(fn_arg[1]) >= 4
  /\ Len(fn_res) >= 1
  /\ RawValue(2, 1) = tG1g /\ RawValue(3, 1) = tG5iu /\ RawValue(4, 1) = tGFuka
  /\ fn_res[1].ryou1 = <<"1">>
  /\ fn_res[1].bikou = <<GOKEI>>

\* C15 as claimed: in a table of 4 columns or more, amount2, amount3 and
\* amount4 of every record hold no weight, international-unit or
\* aggregate-total marker; the row of one name beside 5ｇ, 合計量として10ｇ
\* and 15ｇ yields one record with amount1 = 10, amount2 = 5, amount3 = 10,
\* amount4 = 15, note = aggregate-total, unit = weight (specification
\* SpecSyn).
C15_CategoryAmountsBare ==
  (fn = "df_to_records" /\ Len(fn_arg[1]) >= 4) =>
    /\ \A i \in 1..Len(fn_res) :
         \A marker \in {GFW, KOKUSAI, GOKEI} :
           /\ ~HasMarker(fn_res[i].ryou2, marker)
           /\ ~HasMarker(fn_res[i].ryou3, marker)
           /\ ~HasMarker(fn_res[i].ryou4, marker)
    /\ fn_arg = SynGamma =>
         /\ Len(fn_res) = 1
         /\ fn_res[1].seibunn = tC
         /\ fn_res[1].ryou1 = <<"1", "0">>
         /\ fn_res[1].ryou2 = <<"5">>
         /\ fn_res[1].ryou3 = <<"1", "0">>
         /\ fn_res[1].ryou4 = <<"1", "5">>
         /\ fn_res[1].bikou = <<GOKEI>>
         /\ fn_res[1].tanni = <<"g">>

\* some raw amount value of record i holds the international-unit marker:
\* c2[i] in a table of fewer than 4 columns; the aggregate-total source
\* value, v2, v3 and v4 in a wider one
AnyRawInternationalUnit(i) ==
  IF Len(fn_arg[1]) < 4 THEN HasMarker(RawValue(2, i), KOKUSAI)
  ELSE \/ HasMarker(GokeiSource(i), KOKUSAI)
       \/ \E c \in 2..4 : HasMarker(RawValue(c, i), KOKUSAI)

\* amount1 holds the non-compliant/over-limit marker (配合不可, 配合負荷)
OverLimit(rec) == HasMarker(rec.ryou1, FUKA) \/ HasMarker(rec.ryou1, FUKA2)

\* C16 as claimed: the unit is international-unit whenever a raw amount
\* value of the record holds that marker; otherwise it is weight, unless
\* amount1 holds the non-compliant/over-limit marker, and then it is empty.
C16_InternationalUnitFirst ==
  fn = "df_to_records" =>
    \A i \in 1..Len(fn_res) :
      fn_res[i].tanni
        = (IF AnyRawInternationalUnit(i) THEN <<KOKUSAI>>
           ELSE IF OverLimit(fn_res[i]) THEN <<>>
           ELSE <<"g">>)

\* C16 amended: the unit is empty whenever amount1 holds the
\* non-compliant/over-limit marker, whatever the raw values hold; otherwise
\* it is international-unit if a raw amount value of the record holds that
\* marker and weight if none does, also for a record without amount.  So
\* the unit is empty exactly when amount1 holds the non-compliant/over-limit
\* marker (specification SpecSyn).
C16_OverLimitFirst ==
  fn = "df_to_records" =>
    \A i \in 1..Len(fn_res) :
      /\ fn_res[i].tanni
           = (IF OverLimit(fn_res[i]) THEN <<>>
              ELSE IF AnyRawInternationalUnit(i) THEN <<KOKUSAI>>
              ELSE <<"g">>)
      /\ fn_res[i].tanni = <<>> <=> OverLimit(fn_res[i])
      /\ fn_res[i].ryou1 = <<>> => fn_res[i].tanni # <<>>

\* C16 witness: in a table of 4 columns, v2 of a record holds the
\* international-unit marker, amount1 (from v4) the over-limit marker, and
\* the unit is empty; the next record has no amount and the unit weight
C16_Witness ==
  /\ fn = "df_to_records"
  /\ Len(fn_arg[1]) = 4
  /\ Len(fn_res) = 2
  /\ RawValue(2, 1) = t1iu /\ RawValue(3, 1) = <<>> /\ RawValue(4, 1) = tGFuka
  /\ fn_res[1].ryou1 = <<FUKA>>
  /\ fn_res[1].tanni = <<>>
  /\ fn_res[2].ryou1 = <<>>
  /\ fn_res[2].tanni = <<"g">>

=============================================================================
